---- MODULE Spec2Model ----
(***************************************************************************)
(* Concurrency primitives of rust_atomics_book_studies:                    *)
(*   chapter_6_arc       Arc<T>       (atomic reference counted pointer)    *)
(*   chapter_4_spinlock  SpinLock<T>  (spin lock with LockGuard)            *)
(*   chapter_5_channels  one-shot channels (four variants)                  *)
(* Every atomic operation of the source is one step; a thread's position   *)
(* between two atomic operations is its pc.  Atomics are modelled          *)
(* sequentially consistent: every claim below is about a single atomic     *)
(* location's modification order or about data published by a              *)
(* release/acquire pair on it.                                             *)
(***************************************************************************)
EXTENDS Integers, Naturals, FiniteSets, Sequences, TLC

\* ------------------------------------------------------------------ bounds
\* threads using the Arc
ArcThreads == 2
\* width in bits of the modelled usize reference count; as with the real
\* usize, fewer than 2^(CountBits-1) threads exist
CountBits == 3
\* threads contending for the SpinLock
LockThreads == 3
\* lock / increment / unlock cycles per thread
LockRounds == 2

\* threads using one channel
ChanThreads == 3
\* send calls made on one channel
MaxSends == 3
\* receive calls made on one channel
MaxRecvs == 3
\* split calls made on one channel
MaxSplits == 2

AThreads == 1..ArcThreads
LThreads == 1..LockThreads
CThreads == 1..ChanThreads
\* the messages handed to send, one per call, told apart by a serial number
MsgIds == 1..MaxSends

\* ------------------------------------------------------------------ state
VARIABLES
    \* ---- chapter_6_arc
    ref_count,      \* ArcData::ref_count
    held,           \* held[t]: number of live Arc handles thread t owns
    arc_pc,         \* position of thread t inside clone / drop / get_mut
    arc_obs,        \* value returned to t by its last fetch_add / fetch_sub
    num_drops,      \* how often the payload destructor has run (NUM_DROPS)
    freed,          \* the control block's Box has been dropped
    aborted,        \* std::process::abort() was called
    gm,             \* gm[t]: result of t's last get_mut
    \* ---- chapter_4_spinlock
    locked,         \* SpinLock::locked
    value,          \* SpinLock::value
    guard,          \* guard[t]: thread t owns a live LockGuard (from the
                    \* swap that won it to the store in its drop)
    lock_pc,        \* position of thread t in its lock / update / unlock cycle
    tmp,            \* tmp[t]: the value t read for its `*v += 1`
    rounds,         \* rounds[t]: completed cycles of thread t
    initial,        \* the value SpinLock::new was given
    \* ---- chapter_5_channels
    variant,        \* which Channel this is (the module it comes from)
    message,        \* Channel::message: Uninit, Partial or a message
    ready,          \* Channel::ready
    in_use,         \* oneshot_channel::Channel::in_use
    state,          \* mem_opt_oneshot_channel::Channel::state
    ch_pc,          \* position of thread t inside send / receive
    msg,            \* msg[t]: the message t's running send was given
    got,            \* got[t]: what t's last receive returned
    seen,           \* seen[t]: what t's last is_ready returned
    sender,         \* a Sender from the last split is unused
    receiver,       \* a Receiver from the last split is unused
    rthread,        \* Sender::receiving_thread (the thread that split)
    token,          \* token[t]: t's park token (set by unpark)
    dropped,        \* the Channel has been dropped
    ub,             \* an uninitialised slot was read or dropped
    hist            \* counters and fates kept for the properties

arcVars  == <<ref_count, held, arc_pc, arc_obs, num_drops, freed, aborted, gm>>
lockVars == <<locked, value, guard, lock_pc, tmp, rounds, initial>>
chanVars == <<variant, message, ready, in_use, state, ch_pc, msg, got, seen,
              sender, receiver, rthread, token, dropped, ub, hist>>
vars == <<arcVars, lockVars, chanVars>>

RECURSIVE SumOver(_, _)
SumOver(f, S) == IF S = {} THEN 0
                 ELSE LET x == CHOOSE y \in S : TRUE
                      IN f[x] + SumOver(f, S \ {x})

\* =================================================================== Arc
\* usize::MAX for the modelled width
USIZE_MAX == 2^CountBits - 1
WrapAdd(x, d) == (x + d) % (USIZE_MAX + 1)
WrapSub(x, d) == (x + (USIZE_MAX + 1) - d) % (USIZE_MAX + 1)

\* handles that exist: constructed, and their drop has not yet decremented
LiveHandles == SumOver(held, AThreads)

\* ArcData::new / Arc::new: one handle, count 1
ArcInit ==
    /\ ref_count = 1
    /\ held = [t \in AThreads |-> IF t = 1 THEN 1 ELSE 0]
    /\ arc_pc = [t \in AThreads |-> "idle"]
    /\ arc_obs = [t \in AThreads |-> 0]
    /\ num_drops = 0
    /\ freed = FALSE
    /\ aborted = FALSE
    /\ gm = [t \in AThreads |-> "unset"]

\* clone: `fetch_add(1, Relaxed) > usize::MAX / 2`
CloneOverflows_Mut(old) == old > USIZE_MAX
CloneOverflows(old) == old > USIZE_MAX \div 2

\* drop: `fetch_sub(1, Release) == 1`
IsLastOwner_Mut(old) == old <= 2
IsLastOwner(old) == old = 1

\* get_mut: `ref_count.load(Relaxed) == 1`
IsUnique_Mut(count) == count <= 2
IsUnique(count) == count = 1

\* (a clone that copies the pointer without counting the new handle)
Arc_clone_fetch_add_Mut(t) ==
    /\ ~aborted
    /\ arc_pc[t] = "idle"
    /\ held[t] >= 1
    /\ arc_obs' = [arc_obs EXCEPT ![t] = ref_count]
    /\ UNCHANGED ref_count
    /\ arc_pc' = [arc_pc EXCEPT ![t] = "clone"]
    /\ UNCHANGED <<held, num_drops, freed, aborted, gm>>
    /\ UNCHANGED <<lockVars, chanVars>>

\* clone, first half: the fetch_add on the count of the handle being cloned
Arc_clone_fetch_add(t) ==
    /\ ~aborted
    /\ arc_pc[t] = "idle"
    /\ held[t] >= 1
    /\ arc_obs' = [arc_obs EXCEPT ![t] = ref_count]
    /\ ref_count' = WrapAdd(ref_count, 1)
    /\ arc_pc' = [arc_pc EXCEPT ![t] = "clone"]
    /\ UNCHANGED <<held, num_drops, freed, aborted, gm>>
    /\ UNCHANGED <<lockVars, chanVars>>

\* clone, second half: abort, or return the new handle
Arc_clone_return(t) ==
    /\ ~aborted
    /\ arc_pc[t] = "clone"
    /\ IF CloneOverflows(arc_obs[t])
       THEN /\ aborted' = TRUE
            /\ UNCHANGED held
       ELSE /\ held' = [held EXCEPT ![t] = @ + 1]
            /\ UNCHANGED aborted
    /\ arc_pc' = [arc_pc EXCEPT ![t] = "idle"]
    /\ arc_obs' = [arc_obs EXCEPT ![t] = 0]
    /\ UNCHANGED <<ref_count, num_drops, freed, gm>>
    /\ UNCHANGED <<lockVars, chanVars>>

\* drop, first half: the fetch_sub; the handle is gone from here on
Arc_drop_fetch_sub(t) ==
    /\ ~aborted
    /\ arc_pc[t] = "idle"
    /\ held[t] >= 1
    /\ arc_obs' = [arc_obs EXCEPT ![t] = ref_count]
    /\ ref_count' = WrapSub(ref_count, 1)
    /\ held' = [held EXCEPT ![t] = @ - 1]
    /\ arc_pc' = [arc_pc EXCEPT ![t] = "drop"]
    /\ UNCHANGED <<num_drops, freed, aborted, gm>>
    /\ UNCHANGED <<lockVars, chanVars>>

\* drop, second half: the last owner drops the Box (payload and allocation)
Arc_drop_finish(t) ==
    /\ ~aborted
    /\ arc_pc[t] = "drop"
    /\ IF IsLastOwner(arc_obs[t])
       THEN /\ num_drops' = num_drops + 1
            /\ freed' = TRUE
       ELSE UNCHANGED <<num_drops, freed>>
    /\ arc_pc' = [arc_pc EXCEPT ![t] = "idle"]
    /\ arc_obs' = [arc_obs EXCEPT ![t] = 0]
    /\ UNCHANGED <<ref_count, held, aborted, gm>>
    /\ UNCHANGED <<lockVars, chanVars>>

\* get_mut(&mut Arc): Some(&mut T) when the count reads 1, else None
Arc_get_mut(t) ==
    /\ ~aborted
    /\ arc_pc[t] = "idle"
    /\ held[t] >= 1
    /\ IF IsUnique(ref_count)
       THEN /\ gm' = [gm EXCEPT ![t] = "Some"]
            /\ arc_pc' = [arc_pc EXCEPT ![t] = "mut"]
       ELSE /\ gm' = [gm EXCEPT ![t] = "None"]
            /\ UNCHANGED arc_pc
    /\ UNCHANGED <<ref_count, held, arc_obs, num_drops, freed, aborted>>
    /\ UNCHANGED <<lockVars, chanVars>>

\* the &mut T returned by get_mut goes out of scope
Arc_mut_release(t) ==
    /\ ~aborted
    /\ arc_pc[t] = "mut"
    /\ arc_pc' = [arc_pc EXCEPT ![t] = "idle"]
    /\ UNCHANGED <<ref_count, held, arc_obs, num_drops, freed, aborted, gm>>
    /\ UNCHANGED <<lockVars, chanVars>>

\* a handle is moved to another thread (Arc<T>: Send)
Arc_send_handle(t, u) ==
    /\ ~aborted
    /\ t # u
    /\ arc_pc[t] = "idle"
    /\ held[t] >= 1
    /\ held' = [held EXCEPT ![t] = @ - 1, ![u] = @ + 1]
    /\ UNCHANGED <<ref_count, arc_pc, arc_obs, num_drops, freed, aborted, gm>>
    /\ UNCHANGED <<lockVars, chanVars>>

ArcNext ==
    \E t \in AThreads :
        \/ Arc_clone_fetch_add(t)
        \/ Arc_clone_return(t)
        \/ Arc_drop_fetch_sub(t)
        \/ Arc_drop_finish(t)
        \/ Arc_get_mut(t)
        \/ Arc_mut_release(t)
        \/ \E u \in AThreads : Arc_send_handle(t, u)

\* ============================================================== SpinLock
\* the doc example starts the counter at 0, the test at 42
InitialValues == {0, 42}

\* SpinLock::new(value)
LockInit ==
    /\ initial \in InitialValues
    /\ value = initial
    /\ locked = FALSE
    /\ guard = [t \in LThreads |-> FALSE]
    /\ lock_pc = [t \in LThreads |-> "start"]
    /\ tmp = [t \in LThreads |-> 0]
    /\ rounds = [t \in LThreads |-> 0]

\* lock: `while self.locked.swap(true, Acquire)`: the loop goes on while the
\* swap returns true
SwapWins_Mut(old) == TRUE
SwapWins(old) == old = FALSE

\* (a lock that only loads the flag instead of swapping it)
SpinLock_lock_Mut(t) ==
    /\ lock_pc[t] \in {"start", "spin"}
    /\ rounds[t] < LockRounds
    /\ UNCHANGED locked
    /\ IF SwapWins(locked)
       THEN /\ guard' = [guard EXCEPT ![t] = TRUE]
            /\ lock_pc' = [lock_pc EXCEPT ![t] = "read"]
       ELSE /\ lock_pc' = [lock_pc EXCEPT ![t] = "spin"]
            /\ UNCHANGED guard
    /\ UNCHANGED <<value, tmp, rounds, initial>>
    /\ UNCHANGED <<arcVars, chanVars>>

\* (a lock whose swap stores false)
SpinLock_lock_SwapFalse(t) ==
    /\ lock_pc[t] \in {"start", "spin"}
    /\ rounds[t] < LockRounds
    /\ locked' = FALSE
    /\ IF SwapWins(locked)
       THEN /\ guard' = [guard EXCEPT ![t] = TRUE]
            /\ lock_pc' = [lock_pc EXCEPT ![t] = "read"]
       ELSE /\ lock_pc' = [lock_pc EXCEPT ![t] = "spin"]
            /\ UNCHANGED guard
    /\ UNCHANGED <<value, tmp, rounds, initial>>
    /\ UNCHANGED <<arcVars, chanVars>>

\* (a lock that hands the flag over in thread order: an attempt succeeds
\* only when no thread with a smaller number is spinning)
SpinLock_lock_Queued(t) ==
    /\ lock_pc[t] \in {"start", "spin"}
    /\ rounds[t] < LockRounds
    /\ IF SwapWins(locked) /\ \A u \in LThreads : u < t => lock_pc[u] # "spin"
       THEN /\ locked' = TRUE
            /\ guard' = [guard EXCEPT ![t] = TRUE]
            /\ lock_pc' = [lock_pc EXCEPT ![t] = "read"]
       ELSE /\ lock_pc' = [lock_pc EXCEPT ![t] = "spin"]
            /\ UNCHANGED <<guard, locked>>
    /\ UNCHANGED <<value, tmp, rounds, initial>>
    /\ UNCHANGED <<arcVars, chanVars>>

\* one iteration of lock's loop: the swap; the winner gets the LockGuard
SpinLock_lock(t) ==
    /\ lock_pc[t] \in {"start", "spin"}
    /\ rounds[t] < LockRounds
    /\ locked' = TRUE
    /\ IF SwapWins(locked)
       THEN /\ guard' = [guard EXCEPT ![t] = TRUE]
            /\ lock_pc' = [lock_pc EXCEPT ![t] = "read"]
       ELSE /\ lock_pc' = [lock_pc EXCEPT ![t] = "spin"]
            /\ UNCHANGED guard
    /\ UNCHANGED <<value, tmp, rounds, initial>>
    /\ UNCHANGED <<arcVars, chanVars>>

\* `*v += 1`, the read through LockGuard::deref_mut
Guard_read(t) ==
    /\ lock_pc[t] = "read"
    /\ guard[t]
    /\ tmp' = [tmp EXCEPT ![t] = value]
    /\ lock_pc' = [lock_pc EXCEPT ![t] = "write"]
    /\ UNCHANGED <<locked, value, guard, rounds, initial>>
    /\ UNCHANGED <<arcVars, chanVars>>

\* `*v += 1`, the write through LockGuard::deref_mut
Guard_write(t) ==
    /\ lock_pc[t] = "write"
    /\ guard[t]
    /\ value' = tmp[t] + 1
    /\ lock_pc' = [lock_pc EXCEPT ![t] = "unlock"]
    /\ UNCHANGED <<locked, guard, tmp, rounds, initial>>
    /\ UNCHANGED <<arcVars, chanVars>>

\* (a guard whose drop leaves the flag set)
Guard_drop_Mut(t) ==
    /\ lock_pc[t] = "unlock"
    /\ guard[t]
    /\ UNCHANGED locked
    /\ guard' = [guard EXCEPT ![t] = FALSE]
    /\ rounds' = [rounds EXCEPT ![t] = @ + 1]
    /\ lock_pc' = [lock_pc EXCEPT ![t] = "start"]
    /\ UNCHANGED <<value, tmp, initial>>
    /\ UNCHANGED <<arcVars, chanVars>>

\* Drop for LockGuard: `self.lock.locked.store(false, Release)`
Guard_drop(t) ==
    /\ lock_pc[t] = "unlock"
    /\ guard[t]
    /\ locked' = FALSE
    /\ guard' = [guard EXCEPT ![t] = FALSE]
    /\ rounds' = [rounds EXCEPT ![t] = @ + 1]
    /\ lock_pc' = [lock_pc EXCEPT ![t] = "start"]
    /\ UNCHANGED <<value, tmp, initial>>
    /\ UNCHANGED <<arcVars, chanVars>>

LockNext ==
    \E t \in LThreads :
        \/ SpinLock_lock(t)
        \/ Guard_read(t)
        \/ Guard_write(t)
        \/ Guard_drop(t)

\* ============================================================== channels
\* the four one-shot channels, named after their modules:
\*   "oneshot"  oneshot_channel                  (ready and in_use flags)
\*   "mem_opt"  mem_opt_oneshot_channel          (one state byte)
\*   "noarc"    send_recv_oneshot_channel_noarc  (split into Sender/Receiver)
\*   "blocking" blocking_oneshot_channel         (split, send unparks)
Variants == {"oneshot", "mem_opt", "noarc", "blocking"}
SharedRef == {"oneshot", "mem_opt"}
SplitKind == {"noarc", "blocking"}

\* contents of the slot that are no message, and the "no message" of a local
NoMsg == 0
Uninit == -1
Partial == -2
Garbage == -3

EMPTY == 0
WRITING == 1
READY == 2
READING == 3

\* Channel::new() of the chosen module
ChanInit ==
    /\ variant \in Variants
    /\ message = Uninit
    /\ ready = FALSE
    /\ in_use = FALSE
    /\ state = EMPTY
    /\ ch_pc = [t \in CThreads |-> "idle"]
    /\ msg = [t \in CThreads |-> NoMsg]
    /\ got = [t \in CThreads |-> NoMsg]
    /\ seen = [t \in CThreads |-> FALSE]
    /\ sender = FALSE
    /\ receiver = FALSE
    /\ rthread = 0
    /\ token = [t \in CThreads |-> FALSE]
    /\ dropped = FALSE
    /\ ub = FALSE
    /\ hist = [sends |-> 0, recvs |-> 0, splits |-> 0,
               writes |-> 0, reads |-> 0, publishes |-> 0,
               send_panics |-> 0, recv_panics |-> 0, slot_drops |-> 0,
               last_sent |-> NoMsg, pubs_now |-> 0, claims_now |-> 0,
               destroyed |-> [m \in MsgIds |-> 0],
               handed |-> [m \in MsgIds |-> 0]]

\* hist: sends, recvs, splits count the calls made; writes, reads count the
\* slot's writes and reads; publishes the ready/READY stores; slot_drops
\* the destructor runs on the slot; pubs_now and claims_now the publishes
\* and the successful receive checks since the channel was last made new;
\* last_sent is the message last published; destroyed[m] and handed[m]
\* count m's destructor runs and the receive calls that returned m.

\* the channel of the specifications that do not run it
ChanRest == ChanInit /\ variant = "oneshot"

\* no thread is inside a call: nothing borrows the channel or its handles
AtRest == \A t \in CThreads : ch_pc[t] \in {"idle", "panicked", "done"}

\* what running T's destructor on the slot does to the fates
DropInSlot(h) ==
    IF message \in MsgIds
    THEN [h EXCEPT !.destroyed[message] = @ + 1, !.slot_drops = @ + 1]
    ELSE [h EXCEPT !.slot_drops = @ + 1]

\* oneshot send: `if self.in_use.swap(true, Relaxed) { panic!(..) }`
InUseRejects_Mut(old) == FALSE
InUseRejects(old) == old

\* mem_opt send: compare_exchange(EMPTY, WRITING, ..) fails unless EMPTY
SendCasExpects == EMPTY

\* mem_opt receive: compare_exchange(READY, READING, ..) fails unless READY
RecvCasExpects_Mut == WRITING
RecvCasExpects == READY

\* receive: `!self.ready.swap(false, Acquire)` is the failure; the swap's
\* old value says whether a message is there
SwapSaysReady_Mut(old) == TRUE
SwapSaysReady(old) == old

\* receive: the value its swap leaves in ready
RecvSwapStores_Mut == TRUE
RecvSwapStores == FALSE

\* Drop for Channel: `if *self.ready.get_mut()`
DropFindsMessage_Mut(r) == FALSE
DropFindsMessage(r) == r

\* Drop for mem_opt Channel: `if *self.state.get_mut() == READY`
DropFindsReady_Mut(st) == st >= READY
DropFindsReady(st) == st = READY

\* a send call panics: the unwinding drops its `message` argument
SendPanics(t, m) ==
    /\ ch_pc' = [ch_pc EXCEPT ![t] = "panicked"]
    /\ hist' = [hist EXCEPT !.sends = @ + 1, !.send_panics = @ + 1,
                            !.destroyed[m] = @ + 1]
    /\ UNCHANGED <<message, msg>>

\* a send call won the right to write the slot
SendProceeds(t, m) ==
    /\ ch_pc' = [ch_pc EXCEPT ![t] = "send_write"]
    /\ msg' = [msg EXCEPT ![t] = m]
    /\ hist' = [hist EXCEPT !.sends = @ + 1]
    /\ UNCHANGED message

\* (a send that loads in_use instead of swapping it)
Oneshot_send_Mut(t) ==
    /\ variant = "oneshot" /\ ~dropped
    /\ ch_pc[t] = "idle"
    /\ hist.sends < MaxSends
    /\ UNCHANGED in_use
    /\ IF InUseRejects(in_use)
       THEN SendPanics(t, hist.sends + 1)
       ELSE SendProceeds(t, hist.sends + 1)
    /\ UNCHANGED <<variant, ready, state, got, seen, sender, receiver,
                   rthread, token, dropped, ub>>
    /\ UNCHANGED <<arcVars, lockVars>>

\* oneshot_channel::Channel::send, up to the in_use swap
Oneshot_send(t) ==
    /\ variant = "oneshot" /\ ~dropped
    /\ ch_pc[t] = "idle"
    /\ hist.sends < MaxSends
    /\ in_use' = TRUE
    /\ IF InUseRejects(in_use)
       THEN SendPanics(t, hist.sends + 1)
       ELSE SendProceeds(t, hist.sends + 1)
    /\ UNCHANGED <<variant, ready, state, got, seen, sender, receiver,
                   rthread, token, dropped, ub>>
    /\ UNCHANGED <<arcVars, lockVars>>

\* (a send that swaps WRITING in instead of compare-exchanging it)
MemOpt_send_Mut(t) ==
    /\ variant = "mem_opt" /\ ~dropped
    /\ ch_pc[t] = "idle"
    /\ hist.sends < MaxSends
    /\ state' = WRITING
    /\ IF state = SendCasExpects
       THEN SendProceeds(t, hist.sends + 1)
       ELSE SendPanics(t, hist.sends + 1)
    /\ UNCHANGED <<variant, ready, in_use, got, seen, sender, receiver,
                   rthread, token, dropped, ub>>
    /\ UNCHANGED <<arcVars, lockVars>>

\* mem_opt_oneshot_channel::Channel::send, up to the compare_exchange
MemOpt_send(t) ==
    /\ variant = "mem_opt" /\ ~dropped
    /\ ch_pc[t] = "idle"
    /\ hist.sends < MaxSends
    /\ IF state = SendCasExpects
       THEN /\ state' = WRITING
            /\ SendProceeds(t, hist.sends + 1)
       ELSE /\ UNCHANGED state
            /\ SendPanics(t, hist.sends + 1)
    /\ UNCHANGED <<variant, ready, in_use, got, seen, sender, receiver,
                   rthread, token, dropped, ub>>
    /\ UNCHANGED <<arcVars, lockVars>>

\* (a `send(&self, ..)` that leaves the Sender usable)
Sender_send_Mut(t) ==
    /\ variant \in SplitKind /\ ~dropped
    /\ ch_pc[t] = "idle"
    /\ hist.sends < MaxSends
    /\ sender
    /\ UNCHANGED sender
    /\ SendProceeds(t, hist.sends + 1)
    /\ UNCHANGED <<variant, ready, in_use, state, got, seen, receiver,
                   rthread, token, dropped, ub>>
    /\ UNCHANGED <<arcVars, lockVars>>

\* Sender::send(self, ..) of the split channels: the call consumes the
\* Sender; nothing is checked before the slot is written
Sender_send(t) ==
    /\ variant \in SplitKind /\ ~dropped
    /\ ch_pc[t] = "idle"
    /\ hist.sends < MaxSends
    /\ sender
    /\ sender' = FALSE
    /\ SendProceeds(t, hist.sends + 1)
    /\ UNCHANGED <<variant, ready, in_use, state, got, seen, receiver,
                   rthread, token, dropped, ub>>
    /\ UNCHANGED <<arcVars, lockVars>>

\* (a send that publishes before it writes the slot)
Chan_write_begin_Mut(t) ==
    /\ ch_pc[t] = "send_write"
    /\ message' = Partial
    /\ ch_pc' = [ch_pc EXCEPT ![t] = "send_writing"]
    /\ hist' = [hist EXCEPT !.writes = @ + 1]
    /\ IF variant = "mem_opt"
       THEN state' = READY /\ UNCHANGED ready
       ELSE ready' = TRUE /\ UNCHANGED state
    /\ UNCHANGED <<variant, in_use, msg, got, seen, sender,
                   receiver, rthread, token, dropped, ub>>
    /\ UNCHANGED <<arcVars, lockVars>>

\* `(*self.message.get()).write(message)` starts: the slot is half written
Chan_write_begin(t) ==
    /\ ch_pc[t] = "send_write"
    /\ message' = Partial
    /\ ch_pc' = [ch_pc EXCEPT ![t] = "send_writing"]
    /\ hist' = [hist EXCEPT !.writes = @ + 1]
    /\ UNCHANGED <<variant, ready, in_use, state, msg, got, seen, sender,
                   receiver, rthread, token, dropped, ub>>
    /\ UNCHANGED <<arcVars, lockVars>>

\* `(*self.message.get()).write(message)` ends: the slot holds the message
Chan_write_end(t) ==
    /\ ch_pc[t] = "send_writing"
    /\ message' = msg[t]
    /\ ch_pc' = [ch_pc EXCEPT ![t] = "send_publish"]
    /\ UNCHANGED <<variant, ready, in_use, state, msg, got, seen, sender,
                   receiver, rthread, token, dropped, ub, hist>>
    /\ UNCHANGED <<arcVars, lockVars>>

\* `self.ready.store(true, Release)` / `self.state.store(READY, Release)`;
\* send returns, except in blocking, where the unpark follows
Chan_publish(t) ==
    /\ ch_pc[t] = "send_publish"
    /\ IF variant = "mem_opt"
       THEN state' = READY /\ UNCHANGED ready
       ELSE ready' = TRUE /\ UNCHANGED state
    /\ ch_pc' = [ch_pc EXCEPT ![t] =
                    IF variant = "blocking" THEN "send_unpark" ELSE "idle"]
    /\ hist' = [hist EXCEPT !.publishes = @ + 1, !.pubs_now = @ + 1,
                            !.last_sent = msg[t]]
    /\ msg' = [msg EXCEPT ![t] = NoMsg]
    /\ UNCHANGED <<variant, message, in_use, got, seen, sender, receiver,
                   rthread, token, dropped, ub>>
    /\ UNCHANGED <<arcVars, lockVars>>

\* a send that forgets to wake the receiving thread
Sender_unpark_Mut(t) ==
    /\ ch_pc[t] = "send_unpark"
    /\ ch_pc' = [ch_pc EXCEPT ![t] = "idle"]
    /\ UNCHANGED <<variant, message, ready, in_use, state, msg, got, seen,
                   sender, receiver, rthread, token, dropped, ub, hist>>
    /\ UNCHANGED <<arcVars, lockVars>>

\* (a send that unparks `thread::current()`, the sending thread)
Sender_unpark_Self(t) ==
    /\ ch_pc[t] = "send_unpark"
    /\ token' = [token EXCEPT ![t] = TRUE]
    /\ ch_pc' = [ch_pc EXCEPT ![t] = "idle"]
    /\ UNCHANGED <<variant, message, ready, in_use, state, msg, got, seen,
                   sender, receiver, rthread, dropped, ub, hist>>
    /\ UNCHANGED <<arcVars, lockVars>>

\* blocking Sender::send: `self.receiving_thread.unpark()`
Sender_unpark(t) ==
    /\ ch_pc[t] = "send_unpark"
    /\ token' = [token EXCEPT ![rthread] = TRUE]
    /\ ch_pc' = [ch_pc EXCEPT ![t] = "idle"]
    /\ UNCHANGED <<variant, message, ready, in_use, state, msg, got, seen,
                   sender, receiver, rthread, dropped, ub, hist>>
    /\ UNCHANGED <<arcVars, lockVars>>

\* a receive call panics
RecvPanics(t) ==
    /\ ch_pc' = [ch_pc EXCEPT ![t] = "panicked"]
    /\ hist' = [hist EXCEPT !.recvs = @ + 1, !.recv_panics = @ + 1]

\* a receive call won the right to read the slot
RecvProceeds(t) ==
    /\ ch_pc' = [ch_pc EXCEPT ![t] = "recv_read"]
    /\ hist' = [hist EXCEPT !.recvs = @ + 1, !.claims_now = @ + 1]

\* oneshot_channel::Channel::receive, up to the ready swap
Oneshot_receive(t) ==
    /\ variant = "oneshot" /\ ~dropped
    /\ ch_pc[t] = "idle"
    /\ hist.recvs < MaxRecvs
    /\ ready' = RecvSwapStores
    /\ IF SwapSaysReady(ready) THEN RecvProceeds(t) ELSE RecvPanics(t)
    /\ UNCHANGED <<variant, message, in_use, state, msg, got, seen, sender,
                   receiver, rthread, token, dropped, ub>>
    /\ UNCHANGED <<arcVars, lockVars>>

\* (a receive that swaps READING in instead of compare-exchanging it)
MemOpt_receive_Mut(t) ==
    /\ variant = "mem_opt" /\ ~dropped
    /\ ch_pc[t] = "idle"
    /\ hist.recvs < MaxRecvs
    /\ state' = READING
    /\ IF state = RecvCasExpects THEN RecvProceeds(t) ELSE RecvPanics(t)
    /\ UNCHANGED <<variant, message, ready, in_use, msg, got, seen, sender,
                   receiver, rthread, token, dropped, ub>>
    /\ UNCHANGED <<arcVars, lockVars>>

\* mem_opt_oneshot_channel::Channel::receive, up to the compare_exchange
MemOpt_receive(t) ==
    /\ variant = "mem_opt" /\ ~dropped
    /\ ch_pc[t] = "idle"
    /\ hist.recvs < MaxRecvs
    /\ IF state = RecvCasExpects
       THEN state' = READING /\ RecvProceeds(t)
       ELSE UNCHANGED state /\ RecvPanics(t)
    /\ UNCHANGED <<variant, message, ready, in_use, msg, got, seen, sender,
                   receiver, rthread, token, dropped, ub>>
    /\ UNCHANGED <<arcVars, lockVars>>

\* send_recv_oneshot_channel_noarc::Receiver::receive(self), up to the
\* ready swap; the call consumes the Receiver
Receiver_receive(t) ==
    /\ variant = "noarc" /\ ~dropped
    /\ ch_pc[t] = "idle"
    /\ hist.recvs < MaxRecvs
    /\ receiver
    /\ receiver' = FALSE
    /\ ready' = RecvSwapStores
    /\ IF SwapSaysReady(ready) THEN RecvProceeds(t) ELSE RecvPanics(t)
    /\ UNCHANGED <<variant, message, in_use, state, msg, got, seen, sender,
                   rthread, token, dropped, ub>>
    /\ UNCHANGED <<arcVars, lockVars>>

\* blocking_oneshot_channel::Receiver::receive(self): one turn of
\* `while !self.channel.ready.swap(false, Acquire) { thread::park(); }`,
\* run by the thread that split (the Receiver is not Send)
Blocking_receive(t) ==
    /\ variant = "blocking" /\ ~dropped
    /\ \/ ch_pc[t] = "idle" /\ receiver /\ t = rthread
          /\ hist.recvs < MaxRecvs
       \/ ch_pc[t] = "recv_retry"
    /\ receiver' = FALSE
    /\ ready' = RecvSwapStores
    /\ ch_pc' = [ch_pc EXCEPT ![t] =
                    IF SwapSaysReady(ready) THEN "recv_read" ELSE "recv_park"]
    /\ hist' = [hist EXCEPT
                   !.recvs = IF ch_pc[t] = "idle" THEN @ + 1 ELSE @,
                   !.claims_now = IF SwapSaysReady(ready) THEN @ + 1 ELSE @]
    /\ UNCHANGED <<variant, message, in_use, state, msg, got, seen, sender,
                   rthread, token, dropped, ub>>
    /\ UNCHANGED <<arcVars, lockVars>>

\* (a receive that tests ready with `if` and reads once park has returned)
Park_unparked_Mut(t) ==
    /\ ch_pc[t] = "recv_park"
    /\ token[t]
    /\ token' = [token EXCEPT ![t] = FALSE]
    /\ ch_pc' = [ch_pc EXCEPT ![t] = "recv_read"]
    /\ UNCHANGED <<variant, message, ready, in_use, state, msg, got, seen,
                   sender, receiver, rthread, dropped, ub, hist>>
    /\ UNCHANGED <<arcVars, lockVars>>

\* thread::park() returns because the thread's token was set by an unpark
Park_unparked(t) ==
    /\ ch_pc[t] = "recv_park"
    /\ token[t]
    /\ token' = [token EXCEPT ![t] = FALSE]
    /\ ch_pc' = [ch_pc EXCEPT ![t] = "recv_retry"]
    /\ UNCHANGED <<variant, message, ready, in_use, state, msg, got, seen,
                   sender, receiver, rthread, dropped, ub, hist>>
    /\ UNCHANGED <<arcVars, lockVars>>

\* thread::park() returns spuriously
Park_spurious(t) ==
    /\ ch_pc[t] = "recv_park"
    /\ ~token[t]
    /\ ch_pc' = [ch_pc EXCEPT ![t] = "recv_retry"]
    /\ UNCHANGED <<variant, message, ready, in_use, state, msg, got, seen,
                   sender, receiver, rthread, token, dropped, ub, hist>>
    /\ UNCHANGED <<arcVars, lockVars>>

\* `(*self.message.get()).assume_init_read()`: the slot's bytes are copied
\* out; on a slot that holds no message this is undefined behaviour, and
\* the call may return anything
Chan_receive_read(t) ==
    /\ ch_pc[t] = "recv_read"
    /\ IF message \in MsgIds
       THEN /\ got' = [got EXCEPT ![t] = message]
            /\ hist' = [hist EXCEPT !.reads = @ + 1,
                                    !.handed[message] = @ + 1]
            /\ UNCHANGED ub
       ELSE /\ \E v \in MsgIds \cup {Garbage} : got' = [got EXCEPT ![t] = v]
            /\ hist' = [hist EXCEPT !.reads = @ + 1]
            /\ ub' = TRUE
    /\ ch_pc' = [ch_pc EXCEPT ![t] = "idle"]
    /\ UNCHANGED <<variant, message, ready, in_use, state, msg, seen, sender,
                   receiver, rthread, token, dropped>>
    /\ UNCHANGED <<arcVars, lockVars>>

\* (an is_ready that takes every state from READY on for ready)
Chan_is_ready_Mut(t) ==
    /\ ~dropped
    /\ ch_pc[t] = "idle"
    /\ variant \in SplitKind => receiver
    /\ variant = "blocking" => t = rthread
    /\ seen' = [seen EXCEPT ![t] =
                  IF variant = "mem_opt" THEN state >= READY ELSE ready]
    /\ UNCHANGED <<variant, message, ready, in_use, state, ch_pc, msg, got,
                   sender, receiver, rthread, token, dropped, ub, hist>>
    /\ UNCHANGED <<arcVars, lockVars>>

\* is_ready: `self.ready.load(Relaxed)` / `self.state.load(Relaxed) == READY`;
\* on the split channels it is a method of the unused Receiver
Chan_is_ready(t) ==
    /\ ~dropped
    /\ ch_pc[t] = "idle"
    /\ variant \in SplitKind => receiver
    /\ variant = "blocking" => t = rthread
    /\ seen' = [seen EXCEPT ![t] =
                  IF variant = "mem_opt" THEN state = READY ELSE ready]
    /\ UNCHANGED <<variant, message, ready, in_use, state, ch_pc, msg, got,
                   sender, receiver, rthread, token, dropped, ub, hist>>
    /\ UNCHANGED <<arcVars, lockVars>>

\* Channel::split(&mut self): `*self = Self::new()` drops the old channel
\* (Drop for Channel) and puts a new one in its place; then the two handles
Chan_split(t) ==
    /\ variant \in SplitKind /\ ~dropped
    /\ AtRest
    /\ ch_pc[t] = "idle"
    /\ hist.splits < MaxSplits
    /\ LET h == IF DropFindsMessage(ready) THEN DropInSlot(hist) ELSE hist
       IN hist' = [h EXCEPT !.splits = @ + 1, !.pubs_now = 0,
                              !.claims_now = 0]
    /\ ub' = (ub \/ (DropFindsMessage(ready) /\ message \notin MsgIds))
    /\ message' = Uninit
    /\ ready' = FALSE
    /\ sender' = TRUE
    /\ receiver' = TRUE
    /\ rthread' = IF variant = "blocking" THEN t ELSE rthread
    /\ UNCHANGED <<variant, in_use, state, ch_pc, msg, got, seen, token,
                   dropped>>
    /\ UNCHANGED <<arcVars, lockVars>>

\* Drop for Channel: the owner drops the channel when nothing borrows it
Chan_drop ==
    /\ ~dropped
    /\ AtRest
    /\ dropped' = TRUE
    /\ LET finds == IF variant = "mem_opt" THEN DropFindsReady(state)
                    ELSE DropFindsMessage(ready)
       IN /\ hist' = IF finds THEN DropInSlot(hist) ELSE hist
          /\ ub' = (ub \/ (finds /\ message \notin MsgIds))
    /\ UNCHANGED <<variant, message, ready, in_use, state, ch_pc, msg, got,
                   seen, sender, receiver, rthread, token>>
    /\ UNCHANGED <<arcVars, lockVars>>

ChanNext ==
    \/ \E t \in CThreads :
        \/ Oneshot_send(t)
        \/ MemOpt_send(t)
        \/ Sender_send(t)
        \/ Chan_write_begin(t)
        \/ Chan_write_end(t)
        \/ Chan_publish(t)
        \/ Sender_unpark(t)
        \/ Oneshot_receive(t)
        \/ MemOpt_receive(t)
        \/ Receiver_receive(t)
        \/ Blocking_receive(t)
        \/ Park_unparked(t)
        \/ Park_spurious(t)
        \/ Chan_receive_read(t)
        \/ Chan_is_ready(t)
        \/ Chan_split(t)
    \/ Chan_drop


\* `thread::park()` may also return because "something other than our send
\* method called unpark()": any code holding the receiving thread's handle
\* may set its token (the tokens of the other threads are never consumed)
Foreign_unpark(t) ==
    /\ variant = "blocking" /\ ~dropped
    /\ t = rthread
    /\ ~token[t]
    /\ token' = [token EXCEPT ![t] = TRUE]
    /\ UNCHANGED <<variant, message, ready, in_use, state, ch_pc, msg, got,
                   seen, sender, receiver, rthread, dropped, ub, hist>>
    /\ UNCHANGED <<arcVars, lockVars>>

\* the targeted-wake channel on its own, as use_blocking_channel runs it:
\* split, a send on some thread, a receive on the splitting thread
BlockingNext ==
    \/ \E t \in CThreads :
        \/ Chan_split(t)
        \/ Sender_send(t)
        \/ Chan_write_begin(t)
        \/ Chan_write_end(t)
        \/ Chan_publish(t)
        \/ Sender_unpark(t)
        \/ Blocking_receive(t)
        \/ Park_unparked(t)
        \/ Park_spurious(t)
        \/ Foreign_unpark(t)
        \/ Chan_receive_read(t)
        \/ Chan_is_ready(t)
    \/ Chan_drop

\* scheduling: a thread inside send or inside receive is a running thread and
\* keeps taking steps; a parked thread whose token is set is woken.  Nothing
\* obliges a caller to start a call, park to return spuriously, or unrelated
\* code to unpark.
BlockingFair ==
    \A t \in CThreads :
        /\ WF_vars(Chan_write_begin(t))
        /\ WF_vars(Chan_write_end(t))
        /\ WF_vars(Chan_publish(t))
        /\ WF_vars(Sender_unpark(t))
        /\ WF_vars(ch_pc[t] = "recv_retry" /\ Blocking_receive(t))
        /\ WF_vars(Park_unparked(t))
        /\ WF_vars(Chan_receive_read(t))


\* ------------------------------------------------ poll-and-park programs
\* use_one_shot_channel and use_sender_receiver_split: the main thread polls
\* is_ready and parks between polls, then receives; the thread it spawned
\* sends and then unparks the main thread.  Every variant has is_ready, send
\* and receive, and the same program is run on each of them.
PollMain == 1
PollSpawned == 2

\* `let (sender, receiver) = channel.split();` (use_sender_receiver_split)
Poll_split(t) ==
    /\ t = PollMain
    /\ hist.splits = 0
    /\ Chan_split(t)

\* the channel (and, where there are any, its two handles) exists
PollStarted == variant \in SharedRef \/ hist.splits = 1

\* `channel.send(..)` / `sender.send(..)` in the spawned thread
Poll_send(t) ==
    /\ t = PollSpawned
    /\ PollStarted /\ hist.sends = 0
    /\ Oneshot_send(t) \/ MemOpt_send(t) \/ Sender_send(t)

\* (a spawned thread that returns without `t.unpark()`)
Poll_unpark_Mut(t) ==
    /\ t = PollSpawned
    /\ ch_pc[t] = "idle" /\ hist.sends = 1
    /\ ch_pc' = [ch_pc EXCEPT ![t] = "done"]
    /\ UNCHANGED <<variant, message, ready, in_use, state, msg, got, seen,
                   sender, receiver, rthread, token, dropped, ub, hist>>
    /\ UNCHANGED <<arcVars, lockVars>>

\* `t.unpark();` once send has returned; the spawned thread then ends
Poll_unpark(t) ==
    /\ t = PollSpawned
    /\ ch_pc[t] = "idle" /\ hist.sends = 1
    /\ token' = [token EXCEPT ![PollMain] = TRUE]
    /\ ch_pc' = [ch_pc EXCEPT ![t] = "done"]
    /\ UNCHANGED <<variant, message, ready, in_use, state, msg, got, seen,
                   sender, receiver, rthread, dropped, ub, hist>>
    /\ UNCHANGED <<arcVars, lockVars>>

\* the loop test `!channel.is_ready()` / `!receiver.is_ready()`: a Relaxed
\* load of ready; false enters the loop body, true leaves the loop
Poll_is_ready(t) ==
    /\ t = PollMain
    /\ PollStarted /\ ~dropped
    /\ ch_pc[t] = "idle" /\ ~seen[t]
    /\ variant \in SplitKind => receiver
    /\ LET r == IF variant = "mem_opt" THEN state = READY ELSE ready
       IN /\ seen' = [seen EXCEPT ![t] = r]
          /\ ch_pc' = [ch_pc EXCEPT ![t] = IF r THEN "idle" ELSE "poll_park"]
    /\ UNCHANGED <<variant, message, ready, in_use, state, msg, got, sender,
                   receiver, rthread, token, dropped, ub, hist>>
    /\ UNCHANGED <<arcVars, lockVars>>

\* the loop body `thread::park()` returns because the token was set
Poll_unparked(t) ==
    /\ ch_pc[t] = "poll_park"
    /\ token[t]
    /\ token' = [token EXCEPT ![t] = FALSE]
    /\ ch_pc' = [ch_pc EXCEPT ![t] = "idle"]
    /\ UNCHANGED <<variant, message, ready, in_use, state, msg, got, seen,
                   sender, receiver, rthread, dropped, ub, hist>>
    /\ UNCHANGED <<arcVars, lockVars>>

\* the loop body `thread::park()` returns spuriously
Poll_spurious(t) ==
    /\ ch_pc[t] = "poll_park"
    /\ ~token[t]
    /\ ch_pc' = [ch_pc EXCEPT ![t] = "idle"]
    /\ UNCHANGED <<variant, message, ready, in_use, state, msg, got, seen,
                   sender, receiver, rthread, token, dropped, ub, hist>>
    /\ UNCHANGED <<arcVars, lockVars>>

\* `channel.receive()` / `receiver.receive()` after the loop
Poll_receive(t) ==
    /\ t = PollMain
    /\ seen[t] /\ hist.recvs = 0
    /\ \/ Oneshot_receive(t)
       \/ MemOpt_receive(t)
       \/ Receiver_receive(t)
       \/ Blocking_receive(t)

\* the scope ends when both threads are through; the channel is dropped
Poll_drop ==
    /\ ch_pc[PollSpawned] = "done" /\ hist.reads = 1
    /\ Chan_drop

PollNext ==
    \/ \E t \in CThreads :
        \/ Poll_split(t)
        \/ Poll_send(t)
        \/ Chan_write_begin(t)
        \/ Chan_write_end(t)
        \/ Chan_publish(t)
        \/ Sender_unpark(t)
        \/ Poll_unpark(t)
        \/ Poll_is_ready(t)
        \/ Poll_unparked(t)
        \/ Poll_spurious(t)
        \/ Poll_receive(t)
        \/ Chan_receive_read(t)
    \/ Poll_drop

\* scheduling: both threads of the scope are running threads and keep taking
\* their next step; a parked thread whose token is set is woken.  Nothing
\* obliges park to return spuriously.
PollFair ==
    \A t \in CThreads :
        /\ WF_vars(Poll_split(t))
        /\ WF_vars(Poll_send(t))
        /\ WF_vars(Chan_write_begin(t))
        /\ WF_vars(Chan_write_end(t))
        /\ WF_vars(Chan_publish(t))
        /\ WF_vars(Sender_unpark(t))
        /\ WF_vars(Poll_unpark(t))
        /\ WF_vars(Poll_is_ready(t))
        /\ WF_vars(Poll_unparked(t))
        /\ WF_vars(Poll_receive(t))
        /\ WF_vars(Chan_receive_read(t))


\* --------------------------------------------------- the push program
\* spinlock main.rs: the lock guards a Vec; the first spawned thread pushes 1
\* under one guard, every other spawned thread pushes its own number twice
\* under one guard
PushCount(t) == IF t = 1 THEN 1 ELSE 2

\* `SpinLock::new(Vec::new())`
PushInit ==
    /\ initial = 0
    /\ value = <<>>
    /\ locked = FALSE
    /\ guard = [t \in LThreads |-> FALSE]
    /\ lock_pc = [t \in LThreads |-> "start"]
    /\ tmp = [t \in LThreads |-> 0]
    /\ rounds = [t \in LThreads |-> 0]

\* `lock.lock()`: each spawned thread takes the lock once
Push_lock(t) ==
    /\ rounds[t] = 0
    /\ SpinLock_lock(t)

\* `guard.push(..)` through LockGuard::deref_mut; tmp counts the pushes made
\* under the guard
Guard_push(t) ==
    /\ lock_pc[t] = "read"
    /\ guard[t]
    /\ value' = Append(value, t)
    /\ tmp' = [tmp EXCEPT ![t] = @ + 1]
    /\ lock_pc' = [lock_pc EXCEPT ![t] =
                      IF tmp[t] + 1 = PushCount(t) THEN "unlock" ELSE "read"]
    /\ UNCHANGED <<locked, guard, rounds, initial>>
    /\ UNCHANGED <<arcVars, chanVars>>

PushNext ==
    \E t \in LThreads :
        \/ Push_lock(t)
        \/ Guard_push(t)
        \/ Guard_drop(t)


\* ------------------------------------------- the two channels side by side
\* oneshot_channel::Channel (in_use, ready) and mem_opt_oneshot_channel::
\* Channel (state) run in lockstep: every step is taken on both by the same
\* thread.  As long as the two took the same branch at every test they are at
\* the same place in the same calls with the same slot, locals and fates, and
\* these are kept once; a step at which their tests come out differently
\* leaves the thread that took it at "diverged".
PairInit ==
    /\ variant = "pair"
    /\ message = Uninit
    /\ ready = FALSE
    /\ in_use = FALSE
    /\ state = EMPTY
    /\ ch_pc = [t \in CThreads |-> "idle"]
    /\ msg = [t \in CThreads |-> NoMsg]
    /\ got = [t \in CThreads |-> NoMsg]
    /\ seen = [t \in CThreads |-> FALSE]
    /\ sender = FALSE
    /\ receiver = FALSE
    /\ rthread = 0
    /\ token = [t \in CThreads |-> FALSE]
    /\ dropped = FALSE
    /\ ub = FALSE
    /\ hist = [sends |-> 0, recvs |-> 0, splits |-> 0,
               writes |-> 0, reads |-> 0, publishes |-> 0,
               send_panics |-> 0, recv_panics |-> 0, slot_drops |-> 0,
               last_sent |-> NoMsg, pubs_now |-> 0, claims_now |-> 0,
               destroyed |-> [m \in MsgIds |-> 0],
               handed |-> [m \in MsgIds |-> 0]]

\* the two channels took different branches in a call of thread t
PairDiverges(t) ==
    /\ ch_pc' = [ch_pc EXCEPT ![t] = "diverged"]
    /\ UNCHANGED <<message, msg, got, seen, hist>>

\* send on both: the in_use swap and the compare_exchange(EMPTY, WRITING)
Pair_send(t) ==
    /\ variant = "pair" /\ ~dropped
    /\ ch_pc[t] = "idle"
    /\ hist.sends < MaxSends
    /\ in_use' = TRUE
    /\ state' = IF state = SendCasExpects THEN WRITING ELSE state
    /\ LET a == InUseRejects(in_use)
           b == state # SendCasExpects
       IN IF a # b THEN PairDiverges(t)
          ELSE /\ IF a THEN SendPanics(t, hist.sends + 1)
                       ELSE SendProceeds(t, hist.sends + 1)
               /\ UNCHANGED <<got, seen>>
    /\ UNCHANGED <<variant, ready, sender, receiver, rthread, token, dropped,
                   ub>>
    /\ UNCHANGED <<arcVars, lockVars>>

\* `self.ready.store(true, Release)` and `self.state.store(READY, Release)`
Pair_publish(t) ==
    /\ variant = "pair"
    /\ ch_pc[t] = "send_publish"
    /\ ready' = TRUE
    /\ state' = READY
    /\ ch_pc' = [ch_pc EXCEPT ![t] = "idle"]
    /\ hist' = [hist EXCEPT !.publishes = @ + 1, !.pubs_now = @ + 1,
                            !.last_sent = msg[t]]
    /\ msg' = [msg EXCEPT ![t] = NoMsg]
    /\ UNCHANGED <<variant, message, in_use, got, seen, sender, receiver,
                   rthread, token, dropped, ub>>
    /\ UNCHANGED <<arcVars, lockVars>>

\* receive on both: the ready swap and the compare_exchange(READY, READING)
Pair_receive(t) ==
    /\ variant = "pair" /\ ~dropped
    /\ ch_pc[t] = "idle"
    /\ hist.recvs < MaxRecvs
    /\ ready' = RecvSwapStores
    /\ state' = IF state = RecvCasExpects THEN READING ELSE state
    /\ LET a == SwapSaysReady(ready)
           b == state = RecvCasExpects
       IN IF a # b THEN PairDiverges(t)
          ELSE /\ IF a THEN RecvProceeds(t) ELSE RecvPanics(t)
               /\ UNCHANGED <<message, msg, got, seen>>
    /\ UNCHANGED <<variant, in_use, sender, receiver, rthread, token,
                   dropped, ub>>
    /\ UNCHANGED <<arcVars, lockVars>>

\* is_ready on both: `ready.load(Relaxed)` and `state.load(Relaxed) == READY`
Pair_is_ready(t) ==
    /\ variant = "pair" /\ ~dropped
    /\ ch_pc[t] = "idle"
    /\ LET a == ready
           b == state = READY
       IN IF a # b THEN PairDiverges(t)
          ELSE /\ seen' = [seen EXCEPT ![t] = a]
               /\ UNCHANGED <<message, msg, got, hist, ch_pc>>
    /\ UNCHANGED <<variant, ready, in_use, state, sender, receiver, rthread,
                   token, dropped, ub>>
    /\ UNCHANGED <<arcVars, lockVars>>

\* Drop for Channel on both, by the owner, when nothing borrows them
Pair_drop ==
    /\ variant = "pair" /\ ~dropped
    /\ AtRest
    /\ dropped' = TRUE
    /\ LET a == DropFindsMessage(ready)
           b == DropFindsReady(state)
       IN IF a # b
          THEN /\ ch_pc' = [t \in CThreads |-> "diverged"]
               /\ UNCHANGED <<hist, ub>>
          ELSE /\ hist' = IF a THEN DropInSlot(hist) ELSE hist
               /\ ub' = (ub \/ (a /\ message \notin MsgIds))
               /\ UNCHANGED ch_pc
    /\ UNCHANGED <<variant, message, ready, in_use, state, msg, got, seen,
                   sender, receiver, rthread, token>>
    /\ UNCHANGED <<arcVars, lockVars>>

PairNext ==
    \/ \E t \in CThreads :
        \/ Pair_send(t)
        \/ Chan_write_begin(t)
        \/ Chan_write_end(t)
        \/ Pair_publish(t)
        \/ Pair_receive(t)
        \/ Chan_receive_read(t)
        \/ Pair_is_ready(t)
    \/ Pair_drop


\* scheduling: every thread of the scope is a running thread: one that spins
\* in lock keeps making swaps, one that holds the guard goes on through its
\* critical section and drops the guard
LockFair ==
    \A t \in LThreads :
        /\ WF_vars(SpinLock_lock(t))
        /\ WF_vars(Guard_read(t))
        /\ WF_vars(Guard_write(t))
        /\ WF_vars(Guard_drop(t))


\* ---------------------------------------------------- re-entrant lock call
\* (a lock that lets the thread that holds the guard in again)
Reenter_lock_Recursive(t) ==
    /\ lock_pc[t] \in {"read", "write", "unlock", "respin"}
    /\ guard[t]
    /\ locked' = TRUE
    /\ lock_pc' = [lock_pc EXCEPT ![t] = "reacquired"]
    /\ UNCHANGED <<value, guard, tmp, rounds, initial>>
    /\ UNCHANGED <<arcVars, chanVars>>

\* a thread that holds a live guard calls lock() again: one iteration of the
\* same loop, `while self.locked.swap(true, Acquire)`; the thread is inside
\* lock from here on, its guard stays alive and is not dropped
Reenter_lock(t) ==
    /\ lock_pc[t] \in {"read", "write", "unlock", "respin"}
    /\ guard[t]
    /\ locked' = TRUE
    /\ lock_pc' = [lock_pc EXCEPT ![t] =
                      IF SwapWins(locked) THEN "reacquired" ELSE "respin"]
    /\ UNCHANGED <<value, guard, tmp, rounds, initial>>
    /\ UNCHANGED <<arcVars, chanVars>>

ReenterNext ==
    \E t \in LThreads :
        \/ SpinLock_lock(t)
        \/ Guard_read(t)
        \/ Guard_write(t)
        \/ Guard_drop(t)
        \/ Reenter_lock(t)


\* ========================================================= specifications
\* each specification runs one primitive; the others stay as constructed
ArcRest == ArcInit
LockRest ==
    /\ initial = 0
    /\ value = 0
    /\ locked = FALSE
    /\ guard = [t \in LThreads |-> FALSE]
    /\ lock_pc = [t \in LThreads |-> "start"]
    /\ tmp = [t \in LThreads |-> 0]
    /\ rounds = [t \in LThreads |-> 0]

InitArc  == LockRest /\ ChanRest /\ ArcInit
InitLock == ArcRest /\ ChanRest /\ LockInit
InitChan == ArcRest /\ LockRest /\ ChanInit

SpecArc  == InitArc /\ [][ArcNext]_vars
SpecLock == InitLock /\ [][LockNext]_vars
\* tests::test_spinlock: `SpinLock::new(42)`, run by running threads
InitLockFair == ArcRest /\ ChanRest /\ LockInit /\ initial = 42
SpecLockFair == InitLockFair /\ [][LockNext]_vars /\ LockFair

InitReenter == ArcRest /\ ChanRest /\ LockInit
SpecReenter == InitReenter /\ [][ReenterNext]_vars
SpecChan == InitChan /\ [][ChanNext]_vars

InitBlocking == ArcRest /\ LockRest /\ ChanInit /\ variant = "blocking"
SpecBlocking == InitBlocking /\ [][BlockingNext]_vars /\ BlockingFair

InitPoll == ArcRest /\ LockRest /\ ChanInit
SpecPoll == InitPoll /\ [][PollNext]_vars /\ PollFair

InitPush == ArcRest /\ ChanRest /\ PushInit
SpecPush == InitPush /\ [][PushNext]_vars

InitPair == ArcRest /\ LockRest /\ PairInit
SpecPair == InitPair /\ [][PairNext]_vars

\* ================================================================ claims
\* ---------------------------------------------------------------- Arc
\* C1: whatever handles clone created and however their drops interleave,
\* only the drop whose fetch_sub returned 1 destroys the payload and frees
\* the control block: the destructor has run at most once, never while a
\* handle is live (with a live handle the count of destructions is 0), at
\* most one drop ever observes 1, and once every handle is dropped and
\* every drop has finished it has run exactly once.
C1_DropsPayloadOnce ==
    /\ num_drops <= 1
    /\ (freed <=> num_drops = 1)
    /\ (LiveHandles >= 1 => num_drops = 0)
    /\ \A t \in AThreads :
          (arc_pc[t] = "drop" /\ arc_obs[t] = 1) => LiveHandles = 0
    /\ Cardinality({t \in AThreads : arc_pc[t] = "drop" /\ arc_obs[t] = 1})
          + num_drops <= 1
    /\ (LiveHandles = 0 /\ ~aborted /\ \A t \in AThreads : arc_pc[t] = "idle")
          => num_drops = 1

\* two handles were dropped by two threads at once: the one that observed
\* 1 has destroyed the payload, the one that observed 2 is still returning
C1_Witness ==
    \E t, u \in AThreads :
        /\ t # u
        /\ arc_pc[t] = "drop" /\ arc_obs[t] = 2
        /\ arc_pc[u] = "idle" /\ num_drops = 1

\* C6: a get_mut call returns Some exactly when one handle is live at the
\* call (None with two or more), and leaves the reference count as it was.
C6_GetMutIffUnique ==
    [][\A t \in AThreads :
          Arc_get_mut(t) =>
             /\ (gm'[t] = "Some" <=> LiveHandles = 1)
             /\ (gm'[t] = "None" <=> LiveHandles >= 2)
             /\ ref_count' = ref_count]_vars

\* one thread was refused while two handles were live, another thread holds
\* the mutable reference it got once it owned the only handle
C6_Witness ==
    \E t, u \in AThreads :
        /\ t # u
        /\ gm[t] = "Some" /\ arc_pc[t] = "mut" /\ LiveHandles = 1
        /\ gm[u] = "None"

\* ----------------------------------------------------------- SpinLock
Guards == {t \in LThreads : guard[t]}

\* C2: at most one LockGuard is live, and the flag is true exactly when
\* one is.
C2_MutualExclusion ==
    /\ Cardinality(Guards) <= 1
    /\ (locked <=> Cardinality(Guards) = 1)

\* a thread holds the guard while another one spins on the flag
C2_Witness ==
    \E t, u \in LThreads : guard[t] /\ lock_pc[u] = "spin" /\ locked

\* C5: no update of the guarded counter is lost: the counter is the initial
\* value plus the increments written so far, and when all LockThreads
\* threads have done their LockRounds updates it is
\* initial + LockThreads * LockRounds.
C5_CounterExact ==
    /\ value = initial + SumOver(rounds, LThreads)
                 + Cardinality({t \in LThreads : lock_pc[t] = "unlock"})
    /\ (\A t \in LThreads : rounds[t] = LockRounds)
          => value = initial + LockThreads * LockRounds

\* every thread is done, starting from the test's 42
C5_Witness ==
    /\ initial = 42
    /\ \A t \in LThreads : rounds[t] = LockRounds /\ lock_pc[t] = "start"
    /\ value = 42 + LockThreads * LockRounds

\* ------------------------------------------------------------ channels
Writers == {t \in CThreads : ch_pc[t] \in {"send_write", "send_writing"}}
Readers == {t \in CThreads : ch_pc[t] = "recv_read"}
Sending == {t \in CThreads :
               ch_pc[t] \in {"send_write", "send_writing", "send_publish"}}
\* a message is published and no receive has claimed it
Unclaimed == hist.pubs_now > hist.claims_now
\* thread t makes a receive call (in blocking: one turn of its loop)
ReceiveCall(t) ==
    \/ Oneshot_receive(t)
    \/ MemOpt_receive(t)
    \/ Receiver_receive(t)
    \/ Blocking_receive(t)

\* C3: on the two shared-reference channels the slot is written by at most
\* one send call and read by at most one receive call, no thread is reading
\* while one is writing, and a read happens only when the one write is over
\* and published; the slot is never read uninitialised.
C3_SlotExclusive ==
    variant \in SharedRef =>
        /\ Cardinality(Writers) <= 1
        /\ Cardinality(Readers) <= 1
        /\ ~(Writers # {} /\ Readers # {})
        /\ hist.writes <= 1
        /\ hist.reads + Cardinality(Readers) <= 1
        /\ (Readers # {} \/ hist.reads = 1) =>
              /\ hist.writes = 1 /\ hist.publishes = 1
              /\ Writers = {}
              /\ message \in MsgIds
        /\ ~ub

\* a receive has claimed the slot after a send wrote it, while another
\* send and another receive were turned away
C3_Witness ==
    /\ variant = "mem_opt"
    /\ Readers # {}
    /\ hist.send_panics = 1 /\ hist.recv_panics = 1

\* C4: in every variant the value a receive call returns is the message
\* the last completed send was given, and a receive call made while a
\* published message is unclaimed goes on to read it.
C4_RoundTrip ==
    [][\A t \in CThreads :
          /\ Chan_receive_read(t) =>
                (got'[t] = hist.last_sent /\ got'[t] \in MsgIds)
          /\ (ReceiveCall(t) /\ Unclaimed) => ch_pc'[t] = "recv_read"]_vars

\* the blocking channel has carried a second message after a second split
C4_Witness ==
    \E t \in CThreads :
        /\ variant = "blocking" /\ hist.splits = 2
        /\ got[t] \in MsgIds /\ got[t] = hist.last_sent
        /\ hist.handed[got[t]] = 1
        /\ hist.reads = 2

\* C7: on the two shared-reference channels exactly one of the send calls
\* made writes the slot and publishes; every other send call panics, the
\* slot is written once and keeps the published message.
C7_SecondSendPanics ==
    variant \in SharedRef =>
        /\ hist.writes <= 1
        /\ hist.publishes + Cardinality(Sending) <= 1
        /\ hist.sends >= 1 => hist.publishes + Cardinality(Sending) = 1
        /\ hist.send_panics = hist.sends - 1 \/ hist.sends = 0
        /\ hist.publishes = 1 => message = hist.last_sent

\* two sends were turned away while the first one was still writing
C7_Witness ==
    /\ variant = "oneshot"
    /\ \E t \in CThreads : ch_pc[t] = "send_writing"
    /\ hist.send_panics = 2

\* C8 as stated: in every variant a receive call made when no send has
\* completed fails at once (panics) and returns nothing.
C8_ReceiveEarlyPanics_Stated ==
    [][\A t \in CThreads :
          (ReceiveCall(t) /\ hist.pubs_now = 0) =>
              (ch_pc'[t] = "panicked" /\ got' = got)]_vars

\* C8, amended: a receive call made when no send has completed panics at
\* once on the oneshot, mem_opt and noarc channels; on the blocking channel
\* it does not fail but parks, to check again when it wakes.  In no variant
\* does it return a value: the slot is read only once a send has completed.
C8_ReceiveEarlyPanicsOrParks ==
    [][\A t \in CThreads :
          /\ (ReceiveCall(t) /\ hist.pubs_now = 0) =>
                /\ got' = got
                /\ variant # "blocking" => ch_pc'[t] = "panicked"
                /\ variant = "blocking" => ch_pc'[t] = "recv_park"
          /\ Chan_receive_read(t) => (hist.pubs_now >= 1 /\ ~ub')]_vars

\* the blocking receiver is parked with nothing sent, and nothing returned
C8_Witness ==
    \E t \in CThreads :
        /\ variant = "blocking"
        /\ ch_pc[t] = "recv_park"
        /\ hist.pubs_now = 0 /\ hist.recv_panics = 0 /\ got[t] = NoMsg

\* C9: on the two shared-reference channels a receive call goes on to read
\* the slot exactly when a published message is unclaimed, and panics
\* otherwise; so at most one receive call ever returns the message, it is
\* handed out once, and every other receive call made has panicked.
C9_ReceivedAtMostOnce ==
    /\ [](variant \in SharedRef =>
            /\ hist.reads + Cardinality(Readers) <= 1
            /\ hist.recvs = hist.recv_panics + hist.reads + Cardinality(Readers)
            /\ \A m \in MsgIds : hist.handed[m] <= 1
            /\ \A m, n \in MsgIds :
                  (hist.handed[m] = 1 /\ hist.handed[n] = 1) => m = n)
    /\ [][\A t \in CThreads :
            (variant \in SharedRef /\ ReceiveCall(t)) =>
                /\ Unclaimed => ch_pc'[t] = "recv_read"
                /\ ~Unclaimed => ch_pc'[t] = "panicked"]_vars

\* a thread got the message and panicked in its next receive, and so did a
\* second thread that raced it
C9_Witness ==
    \E t, u \in CThreads :
        /\ t # u
        /\ variant = "oneshot"
        /\ got[t] \in MsgIds /\ ch_pc[t] = "panicked"
        /\ ch_pc[u] = "panicked" /\ hist.recv_panics = 2
        /\ hist.reads = 1

\* C10: in every variant the destructor runs on the slot only for a
\* published message that no receive has claimed; no message is both
\* destroyed and handed out, or either twice; and once the channel is
\* dropped every message given to a send call has been destroyed or handed
\* to a receiver exactly once.
C10_Teardown ==
    /\ ~ub
    /\ hist.slot_drops + hist.reads + Cardinality(Readers) <= hist.publishes
    /\ \A m \in MsgIds : hist.destroyed[m] + hist.handed[m] <= 1
    /\ dropped =>
          /\ hist.slot_drops + hist.reads = hist.publishes
          /\ \A m \in MsgIds :
                hist.destroyed[m] + hist.handed[m]
                    = IF m <= hist.sends THEN 1 ELSE 0

\* a split channel was dropped holding an unreceived message, after an
\* earlier message had been received and a never-sent channel replaced
C10_Witness ==
    /\ dropped
    /\ variant \in SplitKind
    /\ hist.slot_drops = 1
    /\ hist.reads = 1
    /\ hist.publishes = 2

\* ------------------------------------------------- targeted-wake channel
\* thread t is inside a Receiver::receive call
InReceive(t) == ch_pc[t] \in {"recv_park", "recv_retry", "recv_read"}

\* Sender::send has been called since the last split
SendCalled ==
    \/ \E u \in CThreads : msg[u] # NoMsg
    \/ hist.pubs_now >= 1

\* the receive call of the current split has returned the message that the
\* send of the current split carried
ReceiveReturned ==
    /\ hist.pubs_now = 1 /\ hist.claims_now = 1
    /\ \E t \in CThreads : ch_pc[t] = "idle" /\ got[t] = hist.last_sent

\* C11: on the targeted-wake channel, once the Sender has called send(v) and
\* the Receiver is in receive(), receive eventually returns v, however
\* send's slot write, ready store and unpark interleave with receive's ready
\* swap and park; an unpark delivered before the receiver parks is not lost.
C11_ReceiveReturns ==
    (variant = "blocking" /\ SendCalled /\ \E t \in CThreads : InReceive(t))
        ~> ReceiveReturned

\* the unpark was delivered while the receiver, having seen ready false, was
\* still on its way to park
C11_Witness ==
    \E t \in CThreads :
        /\ ch_pc[t] = "recv_park" /\ token[t]
        /\ hist.pubs_now = 1 /\ ready
        /\ \A u \in CThreads : ch_pc[u] # "send_unpark"

\* ------------------------------------------------ poll-and-park programs
\* C12: in the poll-and-park programs (main thread: `while !is_ready()
\* { park() }` then receive(); spawned thread: send(v) then unpark of the
\* main thread), whatever the interleaving and however often park returns
\* spuriously, the receive call does not panic and returns v, and the main
\* thread eventually leaves the loop and completes the receive.
C12_PollAndPark ==
    /\ [](/\ ch_pc[PollMain] # "panicked"
          /\ hist.recv_panics = 0
          /\ hist.reads = 1 =>
                /\ got[PollMain] = hist.last_sent
                /\ hist.publishes = 1
                /\ ~ub)
    /\ <>(seen[PollMain] /\ hist.reads = 1)

\* the main thread saw ready false, the send and the unpark went through
\* while it was still on its way to park, and it has not parked yet
C12_Witness ==
    /\ ch_pc[PollMain] = "poll_park" /\ token[PollMain]
    /\ (ready \/ state = READY) /\ ~seen[PollMain]
    /\ ch_pc[PollSpawned] = "done"

\* ---------------------------------------------------------------- Arc
\* threads between the fetch_add of a clone and its return
InClone == Cardinality({t \in AThreads : arc_pc[t] = "clone"})

\* C13: with a CountBits-wide count, a clone whose fetch_add saw more than
\* USIZE_MAX / 2 aborts the process and hands out no handle, a clone that
\* saw USIZE_MAX / 2 or less hands one out, and so, with fewer than
\* 2^(CountBits-1) cloning threads, the stored count never wraps: until the
\* process aborts it is the number of live handles plus the clones in flight,
\* as integers and not merely modulo 2^CountBits.
C13_NoWrap ==
    [][ArcThreads < 2^(CountBits - 1) =>
        /\ \A t \in AThreads : Arc_clone_return(t) =>
              IF arc_obs[t] > USIZE_MAX \div 2
              THEN aborted' /\ held' = held
              ELSE ~aborted' /\ held'[t] = held[t] + 1
        /\ ~aborted' => ref_count' = LiveHandles' + InClone']_vars

\* the clone that saw exactly USIZE_MAX / 2 returned a handle, and the next
\* one aborted
C13_Witness ==
    /\ aborted
    /\ LiveHandles = USIZE_MAX \div 2 + 1
    /\ ref_count = USIZE_MAX \div 2 + 2

\* --------------------------------------------------------------- channels
\* C14: is_ready returns false as long as no send has completed (a send in
\* the middle of writing the slot included), true once a send has completed,
\* and false again once a receive has taken the message: it returns true
\* exactly when a message is published and unclaimed.
C14_IsReadyIffUnclaimed ==
    [][\A t \in CThreads : Chan_is_ready(t) =>
          /\ seen'[t] <=> Unclaimed
          /\ hist.pubs_now = 0 => ~seen'[t]
          /\ (hist.pubs_now = 1 /\ hist.claims_now = 0) => seen'[t]
          /\ hist.claims_now >= 1 => ~seen'[t]]_vars

\* is_ready has returned true on a shared-reference channel whose message a
\* receive is now reading, while another caller got false
C14_Witness ==
    /\ variant \in SharedRef
    /\ Readers # {}
    /\ \E t, u \in CThreads : seen[t] /\ ~seen[u] /\ ch_pc[u] = "idle"

\* threads inside a receive of the split channels
SplitReceiving ==
    {t \in CThreads : ch_pc[t] \in {"recv_park", "recv_retry", "recv_read"}}

\* C15: on the split channels, which keep no in-use flag, a split hands out
\* one Sender and one Receiver and each is gone once its operation is
\* invoked: between two splits at most one send and at most one receive take
\* effect, and the slot is written at most once and read at most once.
C15_SplitSingleUse ==
    /\ [](variant \in SplitKind =>
            /\ in_use = FALSE /\ state = EMPTY
            /\ hist.pubs_now + Cardinality(Sending) <= 1
            /\ sender => (hist.pubs_now = 0 /\ Sending = {})
            /\ hist.claims_now <= 1
            /\ Cardinality(SplitReceiving) <= 1
            /\ Cardinality(Readers) <= hist.claims_now
            /\ receiver => (hist.claims_now = 0 /\ SplitReceiving = {})
            /\ hist.sends <= hist.splits /\ hist.recvs <= hist.splits
            /\ hist.writes <= hist.splits /\ hist.reads <= hist.splits)
    /\ [][(variant \in SplitKind) => (
            /\ \A t \in CThreads : Chan_split(t) => (sender' /\ receiver')
            /\ \A t \in CThreads : Sender_send(t) => (sender /\ ~sender')
            /\ \A t \in CThreads :
                  (ch_pc[t] = "idle" /\ ReceiveCall(t)) =>
                      (receiver /\ ~receiver')
            /\ \A t \in CThreads : Chan_write_begin(t) =>
                  (hist.pubs_now = 0 /\ Sending = {t}
                   /\ message = Uninit)
            /\ \A t \in CThreads : Chan_receive_read(t) =>
                  (hist.claims_now = 1 /\ Readers = {t}))]_vars

\* the channel was split twice and each pair of handles was used once
C15_Witness ==
    /\ variant \in SplitKind
    /\ hist.splits = 2 /\ hist.writes = 2 /\ hist.reads = 2
    /\ ~sender /\ ~receiver

\* ------------------------------------------------------------- SpinLock
\* the elements pushed under one guard lie next to each other in the Vec
Contiguous(v) ==
    \A i, j, k \in 1..Len(v) :
        (i < j /\ j < k /\ v[i] = v[k]) => v[j] = v[i]

\* how often thread t's number occurs in the Vec
Pushed(v, t) == Cardinality({i \in 1..Len(v) : v[i] = t})

\* C16: the pushes a thread makes under one guard are contiguous in the Vec,
\* never interleaved with the pushes made under another thread's guard: with
\* one thread pushing 1 and another pushing 2 twice under one guard the Vec
\* ends as [1,2,2] or [2,2,1], never [2,1,2]; while a thread is between its
\* pushes no other thread's element follows its own.
C16_SectionsAtomic ==
    /\ Contiguous(value)
    /\ \A t \in LThreads :
          /\ Pushed(value, t) = (IF rounds[t] = 1 THEN PushCount(t) ELSE tmp[t])
          /\ (guard[t] /\ tmp[t] >= 1) => value[Len(value)] = t
    /\ \A i, j \in 1..Len(value) :
          (value[i] = 2 /\ value[j] = 2 /\ i < j) => j = i + 1

\* both orders of the two critical sections of main.rs have run to the end
\* in some state each; this is the one with the section of thread 2 first
C16_Witness ==
    /\ Len(value) >= 3
    /\ value[1] = 2 /\ value[2] = 2 /\ value[3] = 1
    /\ \A t \in LThreads : rounds[t] = 1

\* C17: the locked flag goes from true to false only in the drop of the live
\* guard; a lock attempt never stores false: it leaves the flag true, and an
\* attempt that loses (the flag was already true) changes neither the flag
\* nor the payload nor who holds the guard.
C17_ClearedOnlyByDrop ==
    [][/\ (locked /\ ~locked') =>
              \E t \in LThreads : guard[t] /\ Guard_drop(t) /\ ~guard'[t]
       /\ \A t \in LThreads : SpinLock_lock(t) =>
              /\ locked'
              /\ locked =>
                    /\ value' = value /\ guard' = guard
                    /\ lock_pc'[t] = "spin"]_vars

\* a thread lost an attempt while another held the guard, and the flag has
\* been cleared by that guard's drop since
C17_Witness ==
    \E t, u \in LThreads :
        /\ t # u
        /\ lock_pc[u] = "spin"
        /\ rounds[t] >= 1
        /\ ~locked

\* ------------------------------------------------- targeted-wake channel
\* C18: on the targeted-wake channel a return from park, spurious or caused
\* by an unpark of whatever origin, never ends receive: it sends receive
\* back to its ready swap.  receive reads the slot only after its own swap
\* saw the ready flag that a completed send stored, so it reads a written
\* slot and returns that send's message.
C18_WakeUpsTolerated ==
    /\ [](variant = "blocking" =>
            /\ ~ub
            /\ \A t \in CThreads : ch_pc[t] = "recv_read" =>
                  /\ hist.pubs_now = 1 /\ hist.claims_now = 1
                  /\ message = hist.last_sent
                  /\ ~ready)
    /\ [][(variant = "blocking") => (
            /\ \A t \in CThreads :
                  (Park_unparked(t) \/ Park_spurious(t)) =>
                      (ch_pc'[t] = "recv_retry" /\ got' = got
                       /\ hist' = hist)
            /\ \A t \in CThreads : ch_pc'[t] = "recv_read" =>
                  \/ ch_pc[t] = "recv_read"
                  \/ Blocking_receive(t) /\ ready
            /\ \A t \in CThreads : Chan_receive_read(t) =>
                  (message \in MsgIds /\ got'[t] = hist.last_sent))]_vars

\* the receiving thread was woken, by a spurious return or by an unpark from
\* other code, before any send had stored ready, and is back at its swap
C18_Witness ==
    \E t \in CThreads :
        /\ variant = "blocking"
        /\ ch_pc[t] = "recv_retry"
        /\ hist.pubs_now = 0
        /\ ~ready

\* ---------------------------------------------------------------- Arc
\* no clone and no drop is between its two halves
Quiescent == \A t \in AThreads : arc_pc[t] \in {"idle", "mut"}

\* C19: whenever no clone or drop is mid-step the stored count is the number
\* of live handles (1 after new); each clone adds exactly 1 and each drop
\* takes exactly 1 off, and nothing else changes the count; the count is at
\* least 1 while a handle exists, and the control block is not freed while
\* the count is at least 1.
C19_CountIsLiveHandles ==
    /\ []((~aborted /\ Quiescent) => ref_count = LiveHandles)
    /\ [](LiveHandles >= 1 => ref_count >= 1)
    /\ [](ref_count >= 1 => ~freed)
    /\ [][/\ \A t \in AThreads : Arc_clone_fetch_add(t) =>
                ref_count' = ref_count + 1
          /\ \A t \in AThreads : Arc_drop_fetch_sub(t) =>
                ref_count' = ref_count - 1
          /\ ref_count' # ref_count =>
                \E t \in AThreads :
                    Arc_clone_fetch_add(t) \/ Arc_drop_fetch_sub(t)]_vars

\* handles were cloned and handed to another thread, nothing is mid-step,
\* and the count is the number of handles
C19_Witness ==
    /\ Quiescent /\ ~aborted
    /\ ref_count = 3 /\ LiveHandles = 3
    /\ \E t \in AThreads : t # 1 /\ held[t] >= 1

\* C20: while the &mut T that get_mut returned is in use, the thread's handle
\* is the only handle of the control block and the count is 1; no other
\* thread holds a handle (so none can read through deref), none is cloning,
\* none is destroying the payload, and nothing changes the count or the
\* handles until the reference is released.  (A thread that has taken its
\* own handle's count off and found it was not the last may still be
\* returning from drop; it no longer touches the control block.)
C20_ExclusiveMutation ==
    /\ [](\A t \in AThreads : arc_pc[t] = "mut" =>
            /\ ref_count = 1 /\ LiveHandles = 1 /\ held[t] = 1
            /\ ~freed /\ gm[t] = "Some"
            /\ \A u \in AThreads \ {t} :
                  /\ held[u] = 0
                  /\ arc_pc[u] \notin {"clone", "mut"}
                  /\ arc_pc[u] = "drop" => ~IsLastOwner(arc_obs[u]))
    /\ [][(\E t \in AThreads : arc_pc[t] = "mut" /\ arc_pc'[t] = "mut") =>
            (ref_count' = ref_count /\ held' = held /\ freed' = freed
             /\ num_drops' = num_drops)]_vars

\* a thread mutates through get_mut's reference while another thread, whose
\* fetch_sub took the count from 2 to 1, has not yet returned from drop
C20_Witness ==
    \E t, u \in AThreads :
        /\ t # u
        /\ arc_pc[t] = "mut" /\ gm[t] = "Some"
        /\ arc_pc[u] = "drop" /\ arc_obs[u] = 2

\* ------------------------------------------- the two channels side by side
\* C21: run in lockstep on the same interleaved steps of send, is_ready,
\* receive and drop, the two-flag channel and the four-state channel never
\* take different branches (so they return the same values, panic in the same
\* calls and destroy the same messages), and their states stay related:
\* (in_use, ready) = (false, false) with EMPTY, (true, true) with READY,
\* (true, false) with WRITING or READING.
C21_TwoFlagIsFourState ==
    variant = "pair" =>
        /\ \A t \in CThreads : ch_pc[t] # "diverged"
        /\ state = EMPTY <=> (~in_use /\ ~ready)
        /\ state = READY <=> (in_use /\ ready)
        /\ state \in {WRITING, READING} <=> (in_use /\ ~ready)
        /\ state = WRITING <=> (Sending # {})
        /\ ~(ready /\ ~in_use)

\* both channels went through a whole life: a message sent and received, a
\* second send and a late receive rejected, the channels dropped
C21_Witness ==
    /\ variant = "pair"
    /\ dropped
    /\ hist.reads = 1 /\ hist.send_panics >= 1 /\ hist.recv_panics >= 1
    /\ state = READING /\ in_use /\ ~ready

\* --------------------------------------------------------------- channels
\* C22: the state byte of the four-state channel changes only from EMPTY to
\* WRITING, in the send whose compare_exchange succeeds; from WRITING to
\* READY, in that same send once it has written the slot; and from READY to
\* READING, in the receive whose compare_exchange succeeds.  Nothing else
\* changes it, and from READING it never changes again.
C22_StateTransitions ==
    [][(variant = "mem_opt") => (
          /\ state' # state =>
                \/ /\ state = EMPTY /\ state' = WRITING
                   /\ \E t \in CThreads :
                         MemOpt_send(t) /\ ch_pc'[t] = "send_write"
                \/ /\ state = WRITING /\ state' = READY
                   /\ \E t \in CThreads :
                         /\ Chan_publish(t)
                         /\ Sending = {t}
                         /\ message = msg[t] /\ hist.writes = 1
                \/ /\ state = READY /\ state' = READING
                   /\ \E t \in CThreads :
                         MemOpt_receive(t) /\ ch_pc'[t] = "recv_read"
          /\ state = READING => state' = READING
          /\ state' \in {EMPTY, WRITING, READY, READING})]_vars

\* the channel went through all four states, turned a second send and a late
\* receive away on the way, and was dropped in READING
C22_Witness ==
    /\ variant = "mem_opt"
    /\ state = READING /\ dropped
    /\ hist.send_panics >= 1 /\ hist.recv_panics >= 1 /\ hist.reads = 1

\* the readiness indicator of the channel is set
Indicator == IF variant = "mem_opt" THEN state = READY ELSE ready

\* C23: in every variant, whenever the readiness indicator is set the slot
\* holds the whole message of the one send that succeeded (since the channel
\* was made new) and no send is writing; the indicator is set only by a send
\* that has finished its slot write, and a receive that claimed it reads a
\* written slot.
C23_PublishAfterWrite ==
    /\ [](Indicator =>
            /\ message \in MsgIds
            /\ message = hist.last_sent
            /\ hist.pubs_now = 1
            /\ Sending = {})
    /\ [][/\ (~Indicator /\ Indicator') =>
                \E t \in CThreads :
                    /\ Chan_publish(t)
                    /\ message = msg[t] /\ message \in MsgIds
          /\ \A t \in CThreads : Chan_receive_read(t) =>
                (message \in MsgIds /\ got'[t] = message /\ ~ub')]_vars

\* a message is published and waiting in each kind of channel; this is the
\* targeted-wake one, after its second split
C23_Witness ==
    /\ variant = "blocking"
    /\ Indicator
    /\ hist.splits = 2 /\ hist.publishes = 2
    /\ message = hist.last_sent

\* ------------------------------------------------- targeted-wake channel
\* C24: on the targeted-wake channel send unparks only after it has stored
\* ready, the thread it unparks is the thread that called split, and that
\* thread is the only one that is ever inside receive.
C24_WakeOrdering ==
    /\ [](variant = "blocking" =>
            /\ \A t \in CThreads : InReceive(t) => t = rthread
            /\ \A t \in CThreads : ch_pc[t] = "send_unpark" =>
                  (hist.pubs_now = 1 /\ message = hist.last_sent
                   /\ (ready \/ hist.claims_now = 1)))
    /\ [][(variant = "blocking") => (
            /\ \A t \in CThreads : Chan_split(t) => rthread' = t
            /\ rthread' # rthread => \E t \in CThreads : Chan_split(t)
            /\ \A t \in CThreads : Sender_unpark(t) =>
                  /\ hist.publishes >= 1 /\ hist.pubs_now = 1
                  /\ token'[rthread]
                  /\ \A u \in CThreads \ {rthread} : token'[u] = token[u]
            /\ (ready' /\ ~ready) =>
                  \A u \in CThreads : ~Sender_unpark(u))]_vars

\* after a second split by another thread, a send on a third thread has
\* stored ready and unparked the splitting thread, which is parked in receive
C24_Witness ==
    \E t \in CThreads :
        /\ variant = "blocking" /\ hist.splits = 2
        /\ t = rthread /\ t # 1
        /\ ch_pc[t] = "recv_park" /\ token[t] /\ ready
        /\ \A u \in CThreads : ch_pc[u] # "send_unpark"

\* ------------------------------------------------------------- SpinLock
\* every thread has made all its lock / critical section / drop cycles
AllDone ==
    /\ \A t \in LThreads : rounds[t] = LockRounds /\ lock_pc[t] = "start"
    /\ ~locked

\* C25: with LockThreads threads that each make LockRounds cycles of lock,
\* critical section and guard drop, and never call lock while holding the
\* guard, every run reaches the state where every thread has made all its
\* cycles and the flag is false: every lock call has returned (a thread
\* still inside lock has a cycle left) and the flag is never stuck at true.
C25_Progress == <>AllDone

\* every thread is done and the flag is clear, and no guard is left
C25_Witness ==
    /\ AllDone
    /\ \A t \in LThreads : ~guard[t]
    /\ value = initial + LockThreads * LockRounds

\* threads that are in lock or may call it
Contending ==
    {t \in LThreads : lock_pc[t] \in {"start", "spin"}
                      /\ rounds[t] < LockRounds}

\* C26: the lock keeps no queue: whenever the flag is false, the next swap of
\* any thread that is in lock or calls it now wins, whichever threads have
\* been spinning and for how long, and however often that thread has had the
\* lock already; so a thread that locks again right after its drop can win
\* again while another thread goes on spinning.
C26_NoQueue ==
    ~locked =>
        \A t \in Contending :
            ENABLED (SpinLock_lock(t) /\ guard'[t] /\ lock_pc'[t] = "read")

\* a thread has made all its cycles while another, which lost an attempt
\* and has been spinning since, has not got the lock once
C26_Witness ==
    \E t, u \in LThreads :
        /\ t # u
        /\ rounds[t] = LockRounds /\ LockRounds >= 2
        /\ lock_pc[u] = "spin" /\ rounds[u] = 0
        /\ ~locked

\* --------------------------------------------------------------- channels
\* C27: on the two shared-reference channels a send call that panics and a
\* receive call that panics leave the slot, the flags and the state byte as
\* they were, and leave every other thread where it was: a send in the
\* middle of its write is not disturbed, and a published message stays
\* published and unclaimed.
C27_FailedCallsChangeNothing ==
    [][(variant \in SharedRef) => (
          \A t \in CThreads :
              (/\ ch_pc[t] = "idle" /\ ch_pc'[t] = "panicked"
               /\ \/ Oneshot_send(t)
                  \/ MemOpt_send(t)
                  \/ Oneshot_receive(t)
                  \/ MemOpt_receive(t)) =>
                  /\ message' = message
                  /\ ready' = ready /\ in_use' = in_use /\ state' = state
                  /\ msg' = msg /\ got' = got
                  /\ \A u \in CThreads \ {t} : ch_pc'[u] = ch_pc[u]
                  /\ Sending' = Sending \ {t}
                  /\ Unclaimed' = Unclaimed
                  /\ hist'.publishes = hist.publishes
                  /\ hist'.slot_drops = hist.slot_drops)]_vars

\* one send and one receive were rejected, and the message of the send that
\* went through has been received all the same
C27_Witness ==
    \E t \in CThreads :
        /\ variant \in SharedRef
        /\ hist.send_panics = 1 /\ hist.recv_panics = 1
        /\ hist.writes = 1 /\ hist.publishes = 1
        /\ got[t] = hist.last_sent /\ got[t] \in MsgIds
        /\ hist.reads = 1

\* C28: on the two split channels every split leaves the channel empty
\* (ready false, slot unwritten, nothing published or claimed) whatever
\* state it found; a message that was sent and not received is destroyed in
\* that step, once, and nothing else is; the next send and receive carry a
\* fresh message, and no message is ever both destroyed and received or
\* destroyed twice.
C28_SplitReinitialises ==
    /\ [](variant \in SplitKind =>
            /\ ~ub
            /\ \A m \in MsgIds : hist.destroyed[m] + hist.handed[m] <= 1)
    /\ [][(variant \in SplitKind) => (
            /\ \A t \in CThreads : Chan_split(t) =>
                  /\ ~ready' /\ message' = Uninit
                  /\ hist'.pubs_now = 0 /\ hist'.claims_now = 0
                  /\ ~Unclaimed'
                  /\ IF Unclaimed
                     THEN /\ ready /\ message \in MsgIds
                          /\ hist'.destroyed =
                                [hist.destroyed EXCEPT ![message] = 1]
                          /\ hist.destroyed[message] = 0
                          /\ hist.handed[message] = 0
                          /\ hist'.slot_drops = hist.slot_drops + 1
                     ELSE /\ hist'.destroyed = hist.destroyed
                          /\ hist'.slot_drops = hist.slot_drops
            /\ \A t \in CThreads : Chan_is_ready(t) =>
                  (hist.pubs_now = 0 => ~seen'[t])
            /\ \A t \in CThreads : Chan_receive_read(t) =>
                  /\ hist.pubs_now = 1
                  /\ got'[t] = hist.last_sent /\ got'[t] \in MsgIds
                  /\ hist.destroyed[got'[t]] = 0)]_vars

\* the first message was left unreceived and destroyed by the second split,
\* and the second message has made the round trip
C28_Witness ==
    \E t \in CThreads :
        /\ variant \in SplitKind
        /\ hist.splits = 2
        /\ hist.destroyed[1] = 1 /\ hist.handed[1] = 0
        /\ hist.slot_drops = 1
        /\ got[t] = 2 /\ hist.handed[2] = 1

\* ------------------------------------------------------------- SpinLock
\* C29: a thread that calls lock while it holds a live guard of the same
\* lock never gets a second guard: every swap it makes finds the flag true,
\* and it stays in the loop for good, because the flag is cleared only by
\* the drop of the guard it is holding, which it cannot reach; the flag
\* stays true and no other thread acquires the lock either.
C29_NotReentrant ==
    /\ [](\A t \in LThreads :
            /\ lock_pc[t] # "reacquired"
            /\ lock_pc[t] = "respin" => (locked /\ Guards = {t}))
    /\ [][\A t \in LThreads :
            /\ Reenter_lock(t) =>
                  (locked /\ locked' /\ lock_pc'[t] = "respin"
                   /\ guard' = guard /\ value' = value)
            /\ lock_pc[t] = "respin" =>
                  (lock_pc'[t] = "respin" /\ locked' /\ guard' = guard
                   /\ value' = value /\ rounds' = rounds)]_vars

\* a thread is stuck in its second lock call, the other threads are all
\* spinning, and nothing but swaps that lose is left to happen
C29_Witness ==
    \E t \in LThreads :
        /\ lock_pc[t] = "respin" /\ rounds[t] = 1
        /\ \A u \in LThreads \ {t} : lock_pc[u] = "spin"

====
